---- MODULE Spec2Model ----
(***************************************************************************)
(* Model of the ga-versioning release action.                              *)
(*                                                                         *)
(* The repository holds three copies of the action:                        *)
(*   "squashed"  src/.github/actions/versioning/src/index.ts lines 1-129   *)
(*   "logging"   src/.github/actions/versioning/src/index.ts lines 130-278 *)
(*   "notes"     src/unnamed/part_000                                      *)
(*                                                                         *)
(* A string is a sequence of tokens.  A token is one character, except     *)
(* that the words feat, fix and chore are one token each.                  *)
(***************************************************************************)
EXTENDS Integers, Sequences, FiniteSets

VARIABLES
    variant,              \* which copy of the action runs
    pc,                   \* position of run() (or of the function under test)
    pullRequest,          \* context.payload.pull_request
    localTags,            \* tags of the local clone
    remoteTags,           \* tags of the remote
    commitsData,          \* listCommits' data: the commits' messages
    commitMessage,        \* the message that is classified
    majorMessages,        \* categorizeCommitMessages' buckets
    minorMessages,
    patchMessages,
    versionIncrementType, \* "MAJOR" | "MINOR" | "PATCH" | "NONE" | "null"
    currentVersion,       \* getCurrentVersion's result
    nextVersion,          \* getNextVersion's result
    releaseNotes,         \* generateReleaseNotes' result, a sequence of lines
    failed,               \* the messages given to setFailed, in order
    tagObjects,           \* annotated tag objects created by createTag
    refs,                 \* refs created by createRef
    calls,                \* the calls run() has made, in order
    origin,               \* SpecVersion: the version the chain started from
    applied               \* SpecVersion: the increments applied so far

vars == <<variant, pc, pullRequest, localTags, remoteTags, commitsData,
          commitMessage, majorMessages, minorMessages, patchMessages,
          versionIncrementType, currentVersion, nextVersion, releaseNotes,
          failed, tagObjects, refs, calls, origin, applied>>

(***************************************************************************)
(* Bounds of the model.                                                    *)
(***************************************************************************)
MaxParts == 4
MaxSteps == 3
MaxLines == 2
MaxCommits == 2

(***************************************************************************)
(* Strings.                                                                *)
(***************************************************************************)
NL == "\n"
None == <<"<none>">>
\* Number's NaN: a value no string of digits has.
NaN == 0 - 1

Range(s) == {s[i] : i \in 1..Len(s)}

Includes(s, c) == c \in Range(s)

DigitChars == <<"0", "1", "2", "3", "4", "5", "6", "7", "8", "9">>

Digits == Range(DigitChars)

DigitValue(c) == (CHOOSE d \in 1..10 : DigitChars[d] = c) - 1

RECURSIVE DecValue(_)
DecValue(s) ==
    IF s = <<>> THEN 0
    ELSE 10 * DecValue(SubSeq(s, 1, Len(s) - 1)) + DigitValue(s[Len(s)])

\* Number(str): the empty string is 0, a string of digits its value, any
\* other string of the model's alphabet NaN.
Number(s) ==
    IF s = <<>> THEN 0
    ELSE IF \A i \in 1..Len(s) : s[i] \in Digits THEN DecValue(s)
    ELSE NaN

RECURSIVE NatToString(_)
NatToString(n) ==
    IF n < 10 THEN <<DigitChars[n + 1]>>
    ELSE NatToString(n \div 10) \o <<DigitChars[(n % 10) + 1]>>

\* `${n}` of a template literal.
NumToString(n) == IF n = NaN THEN <<"N", "a", "N">> ELSE NatToString(n)

\* n + 1, and n += 1: NaN stays NaN.
PlusOne(n) == IF n = NaN THEN NaN ELSE n + 1

\* str.replace(/^v/, "")
StripV(s) == IF s # <<>> /\ s[1] = "v" THEN Tail(s) ELSE s

\* str.split(sep): always at least one part.
RECURSIVE Split(_, _)
Split(s, sep) ==
    IF \A i \in 1..Len(s) : s[i] # sep THEN <<s>>
    ELSE LET k == CHOOSE i \in 1..Len(s) :
                    s[i] = sep /\ \A j \in 1..(i - 1) : s[j] # sep
         IN  <<SubSeq(s, 1, k - 1)>> \o Split(SubSeq(s, k + 1, Len(s)), sep)

IsSpace(c) == c \in {" ", NL}

\* str.trim()
RECURSIVE Trim(_)
Trim(s) ==
    IF s = <<>> THEN s
    ELSE IF IsSpace(s[1]) THEN Trim(Tail(s))
    ELSE IF IsSpace(s[Len(s)]) THEN Trim(SubSeq(s, 1, Len(s) - 1))
    ELSE s

(***************************************************************************)
(* getNextVersion.  The three copies differ only in the wording of the     *)
(* message of the default branch.                                          *)
(***************************************************************************)
InvalidVersionFormat == "Invalid version format. Expected format: vX.Y.Z"
InvalidIncrementType ==
    "Invalid increment type. Expected 'MAJOR', 'MINOR', or 'PATCH'."

Increment == {"MAJOR", "MINOR", "PATCH"}

Return(v) == [ok |-> TRUE, value |-> v]
Throw(m) == [ok |-> FALSE, error |-> m]

\* Bump with a MINOR that leaves patch as it was.
BumpKeepsPatch(parts, incrementType) ==
    CASE incrementType = "MAJOR" -> <<PlusOne(parts[1]), 0, 0>>
      [] incrementType = "MINOR" -> <<parts[1], PlusOne(parts[2]), parts[3]>>
      [] incrementType = "PATCH" -> <<parts[1], parts[2], PlusOne(parts[3])>>

\* Bump with a PATCH that adds nothing.
BumpPatchStuck(parts, incrementType) ==
    CASE incrementType = "MAJOR" -> <<PlusOne(parts[1]), 0, 0>>
      [] incrementType = "MINOR" -> <<parts[1], PlusOne(parts[2]), 0>>
      [] incrementType = "PATCH" -> <<parts[1], parts[2], parts[3]>>

\* [major, minor, patch] after the switch.
Bump(parts, incrementType) ==
    CASE incrementType = "MAJOR" -> <<PlusOne(parts[1]), 0, 0>>
      [] incrementType = "MINOR" -> <<parts[1], PlusOne(parts[2]), 0>>
      [] incrementType = "PATCH" -> <<parts[1], parts[2], PlusOne(parts[3])>>

getNextVersion(version, incrementType) ==
    LET strs == Split(StripV(version), ".")
        versionParts == [i \in 1..Len(strs) |-> Number(strs[i])]
    IN  IF Len(versionParts) # 3 THEN Throw(InvalidVersionFormat)
        ELSE IF incrementType \notin Increment THEN Throw(InvalidIncrementType)
        ELSE LET b == Bump(versionParts, incrementType)
             IN  Return(<<"v">> \o NumToString(b[1]) \o <<".">> \o NumToString(b[2])
                        \o <<".">> \o NumToString(b[3]))

(***************************************************************************)
(* The commit patterns.  Positions are 1-based; NoMatch is "exec gave      *)
(* null".                                                                  *)
(*   index.ts   ^(feat)(?:\([^)]+\))?!?: .+            flag m             *)
(*   part_000   ^(\* )?(feat)(?:\([^)]+\))?!?: (.+)     flags gm           *)
(***************************************************************************)
NoMatch == [found |-> FALSE]

minorPrefixes == {"feat"}
patchPrefixes == {"fix"}

At(s, p) == IF p \in 1..Len(s) THEN s[p] ELSE "<end>"

\* ^ under the m flag.
IsLineStart(s, p) == p = 1 \/ (p \in 2..Len(s) /\ s[p - 1] = NL)

\* (\* )? : the position after the optional bullet.
AfterBullet(s, p, bullet) ==
    IF bullet /\ At(s, p) = "*" /\ At(s, p + 1) = " " THEN p + 2 ELSE p

\* (?:\([^)]+\))? from position q: the position after the scope, q itself
\* when there is no "(" at q, 0 when a "(" at q opens no scope (the pattern
\* then fails, for "(" is neither "!" nor ":").  [^)] matches a line break.
AfterScope(s, q) ==
    IF At(s, q) # "(" THEN q
    ELSE LET closers == {r \in (q + 1)..Len(s) : s[r] = ")"}
         IN  IF closers = {} THEN 0
             ELSE LET r == CHOOSE x \in closers : \A y \in closers : x <= y
                  IN  IF r >= q + 2 THEN r + 1 ELSE 0

\* .+ from position t: the last position of the line t is on.
LineEnd(s, t) ==
    CHOOSE e \in t..Len(s) :
        /\ \A k \in t..e : s[k] # NL
        /\ (e = Len(s) \/ s[e + 1] = NL)

\* The pattern tried at position p.
MatchAt(s, p, prefixes, bullet) ==
    LET h == AfterBullet(s, p, bullet)
        q == AfterScope(s, h + 1)
        c == IF At(s, q) = "!" THEN q + 1 ELSE q
        t == c + 2
    IN  IF /\ IsLineStart(s, p)
           /\ At(s, h) \in prefixes
           /\ q # 0
           /\ At(s, c) = ":"
           /\ At(s, c + 1) = " "
           /\ t <= Len(s)
           /\ s[t] # NL
        THEN [found |-> TRUE, start |-> p, end |-> LineEnd(s, t),
              whole |-> SubSeq(s, p, LineEnd(s, t)),
              text |-> SubSeq(s, t, LineEnd(s, t))]
        ELSE NoMatch

\* regex.exec(s) with lastIndex = from - 1: the first match at or after from.
Exec(s, from, prefixes, bullet) ==
    LET hits == {p \in from..Len(s) : MatchAt(s, p, prefixes, bullet).found}
    IN  IF hits = {} THEN NoMatch
        ELSE MatchAt(s, CHOOSE p \in hits : \A x \in hits : p <= x,
                     prefixes, bullet)

\* regex.test(s) of a pattern without the g flag.
Test(s, prefixes, bullet) == Exec(s, 1, prefixes, bullet).found

\* while ((match = regex.exec(s)) !== null): every match, in order.
RECURSIVE ExecAll(_, _, _, _)
ExecAll(s, from, prefixes, bullet) ==
    LET m == Exec(s, from, prefixes, bullet)
    IN  IF m.found THEN <<m>> \o ExecAll(s, m.end + 1, prefixes, bullet)
        ELSE <<>>

(***************************************************************************)
(* getVersionIncrementType (both copies of index.ts).                      *)
(***************************************************************************)
getVersionIncrementType(message) ==
    IF Test(message, minorPrefixes, FALSE) /\ Includes(message, "!")
    THEN "MAJOR"
    ELSE IF Test(message, patchPrefixes, FALSE) /\ Includes(message, "!")
    THEN "MAJOR"
    ELSE IF Test(message, minorPrefixes, FALSE) THEN "MINOR"
    ELSE IF Test(message, patchPrefixes, FALSE) THEN "PATCH"
    ELSE "NONE"

(***************************************************************************)
(* categorizeCommitMessages (part_000).                                    *)
(***************************************************************************)
TextsOf(ms, breaking) ==
    LET keep(m) == Includes(m.whole, "!") = breaking
        kept == SelectSeq(ms, keep)
    IN  [i \in 1..Len(kept) |-> kept[i].text]

categorizeCommitMessages(message) ==
    LET minorMatches == ExecAll(message, 1, minorPrefixes, TRUE)
        patchMatches == ExecAll(message, 1, patchPrefixes, TRUE)
    IN  [majorMessages |-> TextsOf(minorMatches, TRUE)
                           \o TextsOf(patchMatches, TRUE),
         minorMessages |-> TextsOf(minorMatches, FALSE),
         patchMessages |-> TextsOf(patchMatches, FALSE)]

\* run()'s versionIncrementType from the buckets (part_000).
IncrementOfBuckets(major, minor, patch) ==
    IF Len(major) # 0 THEN "MAJOR"
    ELSE IF Len(minor) # 0 THEN "MINOR"
    ELSE IF Len(patch) # 0 THEN "PATCH"
    ELSE "null"

(***************************************************************************)
(* generateReleaseNotes (part_000).  The document is the sequence of its   *)
(* lines, each line ended by a line break in the code; a line is a record  *)
(* of its fixed part and the string spliced into it.                       *)
(***************************************************************************)
HeaderLine(version) == [kind |-> "## Release ", arg |-> version]
BlankLine == [kind |-> "", arg |-> <<>>]
SectionLine(title) == [kind |-> title, arg |-> <<>>]
ItemLine(msg) == [kind |-> "- ", arg |-> msg]

BreakingTitle == "### BREAKING CHANGES:"
MinorTitle == "### MAJOR CHANGES:"
PatchTitle == "### MINOR CHANGES:"

\* Section without the test of messages.length.
SectionAlways(title, messages) ==
    <<SectionLine(title)>> \o [i \in 1..Len(messages) |-> ItemLine(messages[i])]

Section(title, messages) ==
    IF Len(messages) > 0
    THEN <<SectionLine(title)>> \o [i \in 1..Len(messages) |-> ItemLine(messages[i])]
    ELSE <<>>

generateReleaseNotes(major, minor, patch, version) ==
    <<HeaderLine(version), BlankLine>>
        \o Section(BreakingTitle, major)
        \o Section(MinorTitle, minor)
        \o Section(PatchTitle, patch)

(***************************************************************************)
(* getCurrentVersion.  execSync gives the command's output, or throws when *)
(* the shell ends with a status other than 0.                              *)
(*   index.ts   git describe --tags --abbrev=0                             *)
(*   part_000   git tag --sort=-v:refname | head -n 1                      *)
(* A pipeline ends with the status of its last command: head ends with 0   *)
(* whatever git tag printed.                                               *)
(***************************************************************************)
DefaultVersion == <<"v", "0", ".", "1", ".", "0">>

Exited(status, stdout) == [status |-> status, stdout |-> stdout]

\* What the shell command of the variant can give in a clone with these tags.
ExecOutcomes(v, tags) ==
    IF v = "notes"
    THEN IF tags = {} THEN {Exited(0, <<>>)}
         ELSE {Exited(0, t \o <<NL>>) : t \in tags}
    ELSE {Exited(128, <<>>)} \cup {Exited(0, t \o <<NL>>) : t \in tags}

getCurrentVersion(exec) ==
    IF exec.status # 0 THEN DefaultVersion ELSE Trim(exec.stdout)

(***************************************************************************)
(* run(): the messages it can fail with.                                   *)
(***************************************************************************)
NotPullRequest == "This action can only be run on Pull Request"
NotMerged == "This action should only run after a PR is merged"
NotSquashed == "The pull request contains multiple commits. PR must be squashed"
NoCorrectMessages == "Pull request does not contain correct commit messages"
FetchTagsFailed == "Failed to fetch tags: <error>"
ApiError == "<the message of the error the API call threw>"
TypeError == "Cannot read properties of undefined (reading 'commit')"

Variants == {"squashed", "logging", "notes"}

ChecksMerged(v) == v \in {"logging", "notes"}
ListsCommits(v) == v \in {"squashed", "logging"}

\* PullRequestError without the test of pullRequest.merged.
PullRequestErrorUnmerged(v, pr) ==
    IF pr = "absent" THEN NotPullRequest ELSE ""

\* The check of context.payload.pull_request: the message thrown, "" if none.
PullRequestError(v, pr) ==
    IF pr = "absent" THEN NotPullRequest
    ELSE IF ChecksMerged(v) /\ pr # "merged" THEN NotMerged
    ELSE ""

Event(name, outcome) == <<name, outcome>>

NoBuckets == [majorMessages |-> <<>>, minorMessages |-> <<>>, patchMessages |-> <<>>]

(***************************************************************************)
(* The inputs the specifications draw from.                                *)
(***************************************************************************)
\* Version strings: an optional v, then up to MaxParts components.
Components ==
    {<<>>, <<"0">>, <<"1">>, <<"9">>, <<"1", "9">>, <<"0", "1">>, <<"x">>}

RECURSIVE Dotted(_, _)
Dotted(comps, n) ==
    IF n = 1 THEN comps
    ELSE {c \o <<".">> \o rest : c \in comps, rest \in Dotted(comps, n - 1)}

VersionStrings ==
    {pre \o d : pre \in {<<>>, <<"v">>},
                d \in UNION {Dotted(Components, n) : n \in 1..MaxParts}}

\* Commit message lines.
ConventionalLines ==
    {<<h>> \o sc \o bang \o <<":", " ">> \o text :
        h \in {"feat", "fix"},
        sc \in {<<>>, <<"(", "a", ")">>},
        bang \in {<<>>, <<"!">>},
        text \in {<<"a">>, <<"a", "!">>}}

BulletLines ==
    {<<"*", " ", "feat", ":", " ", "a">>, <<"*", " ", "fix", "!", ":", " ", "a">>}

\* A "(" that its line does not close, and lines that close it.
ScopeLines ==
    {<<"feat", "(", "a", ":", " ", "a">>, <<"fix", "(", "a">>,
     <<"a", ")", ":", " ", "a">>, <<"feat", ":", " ", "a", ")", ":", " ", "a">>}

OtherLines ==
    {<<>>, <<"a", "!">>, <<"chore", ":", " ", "a">>, <<"feat", ":">>,
     <<"feat", ":", " ">>, <<"feat", "(", ")", ":", " ", "a">>,
     <<" ", "feat", ":", " ", "a">>}

Lines == ConventionalLines \cup BulletLines \cup ScopeLines \cup OtherLines

RECURSIVE MessagesOf(_, _)
MessagesOf(lines, n) ==
    IF n = 1 THEN lines
    ELSE {l \o <<NL>> \o rest : l \in lines, rest \in MessagesOf(lines, n - 1)}

Messages == UNION {MessagesOf(Lines, n) : n \in 1..MaxLines}

\* The smaller pools of the specification of run().
RunLines ==
    {<<"feat", ":", " ", "a">>, <<"fix", "!", ":", " ", "a">>,
     <<"fix", "(", "a", ")", ":", " ", "a">>, <<"chore", ":", " ", "a">>,
     <<"a", "!">>}

RunMessages == UNION {MessagesOf(RunLines, n) : n \in 1..MaxLines}

Filler == <<"chore", ":", " ", "a">>

CommitLists ==
    {<<>>} \cup {<<m>> \o [i \in 1..n |-> Filler] :
                    m \in RunMessages, n \in 0..(MaxCommits - 1)}

RunTags ==
    {<<"v">> \o d : d \in Dotted({<<"0">>, <<"9">>}, 3)}
        \cup {DefaultVersion,
               <<"v", "1", ".", "2", ".", "3">>,
               <<"1", ".", "4", ".", "9">>,
               <<"v", "1", ".", "2">>,
               <<"v", "1", ".", "2", ".", "x">>,
               <<"v", "1", ".", ".", "3">>}

TagSets == {{}} \cup {{t} : t \in RunTags}

(***************************************************************************)
(* run().  One action for each stretch of run() between two awaits.        *)
(***************************************************************************)
Init ==
    /\ variant \in Variants
    /\ pc = "start"
    /\ pullRequest \in {"absent", "open", "merged"}
    /\ remoteTags \in TagSets
    /\ localTags \in {{}, remoteTags}
    /\ commitsData = <<>>
    /\ commitMessage = None
    /\ majorMessages = <<>>
    /\ minorMessages = <<>>
    /\ patchMessages = <<>>
    /\ versionIncrementType = "null"
    /\ currentVersion = None
    /\ nextVersion = None
    /\ releaseNotes = <<>>
    /\ failed = <<>>
    /\ tagObjects = {}
    /\ refs = {}
    /\ calls = <<>>
    /\ origin = None
    /\ applied = <<>>

chainVars == <<origin, applied>>
envVars == <<variant, pullRequest, remoteTags>>
localVars == <<commitMessage, majorMessages, minorMessages, patchMessages,
               versionIncrementType, currentVersion, nextVersion, releaseNotes>>
published == <<tagObjects, refs>>

\* fetchTags(): the tags fetched, or setFailed and go on.
\* Then the checks of the pull request and the first API call.
Begin ==
    /\ pc = "start"
    /\ \E fetched \in BOOLEAN :
        LET fetches == variant = "notes"
            fetchEvents == IF ~fetches THEN <<>>
                           ELSE IF fetched THEN <<Event("fetchTags", "ok")>>
                           ELSE <<Event("fetchTags", "error")>>
            fetchFailed == IF fetches /\ ~fetched THEN <<FetchTagsFailed>> ELSE <<>>
            error == PullRequestError(variant, pullRequest)
        IN  /\ fetches \/ fetched
            /\ localTags' = IF fetches /\ fetched THEN localTags \cup remoteTags
                            ELSE localTags
            /\ calls' = calls \o fetchEvents
            /\ IF error # ""
               THEN /\ failed' = failed \o fetchFailed \o <<error>>
                    /\ pc' = "done"
               ELSE /\ failed' = failed \o fetchFailed
                    /\ pc' = IF ListsCommits(variant) THEN "listCommits"
                             ELSE "getCommit"
    /\ UNCHANGED <<envVars, commitsData, localVars, published, chainVars>>

\* The catch block: setFailed(error.message).
Caught(error) ==
    /\ failed' = Append(failed, error)
    /\ pc' = "done"

\* const x = f(...): x is bound to the value once.
\* The locals run() has set when the commit message is classified.
SetClassified(msg, b, type) ==
    /\ commitMessage' = msg
    /\ majorMessages' = b.majorMessages
    /\ minorMessages' = b.minorMessages
    /\ patchMessages' = b.patchMessages
    /\ versionIncrementType' = type

\* `Release ${nextVersion}`, or the release notes.
TagMessage(v, b, version) ==
    IF v = "notes"
    THEN generateReleaseNotes(b.majorMessages, b.minorMessages, b.patchMessages,
                              version)
    ELSE <<[kind |-> "Release ", arg |-> version]>>

\* From getCurrentVersion() to the createTag call.
ComputeVersion(evs, b, type, exec) ==
    \E cur \in {getCurrentVersion(exec)} :
    \E r \in {getNextVersion(cur, type)} :
        /\ currentVersion' = cur
        /\ IF r.ok
           THEN /\ nextVersion' = r.value
                /\ releaseNotes' = TagMessage(variant, b, r.value)
                /\ calls' = calls \o evs \o <<Event("getCurrentVersion", "ok"),
                                               Event("getNextVersion", "ok")>>
                /\ pc' = "createTag"
                /\ UNCHANGED failed
           ELSE /\ calls' = calls \o evs \o <<Event("getCurrentVersion", "ok"),
                                               Event("getNextVersion", "error")>>
                /\ Caught(r.error)
                /\ UNCHANGED <<nextVersion, releaseNotes>>

\* The throw of a check that comes before getCurrentVersion().
Rejected(evs, error) ==
    /\ calls' = calls \o evs
    /\ Caught(error)
    /\ UNCHANGED <<currentVersion, nextVersion, releaseNotes>>

\* index.ts: from commitsData to the createTag call.
FromCommitsData(evs, data, exec) ==
    IF variant = "logging" /\ Len(data) = 0
    THEN Rejected(evs, TypeError) /\ SetClassified(None, NoBuckets, "null")
    ELSE IF Len(data) # 1
    THEN Rejected(evs, NotSquashed) /\ SetClassified(None, NoBuckets, "null")
    ELSE \E type \in {getVersionIncrementType(data[1])} :
            /\ SetClassified(data[1], NoBuckets, type)
            /\ IF type = "NONE"
               THEN Rejected(evs, NoCorrectMessages)
               ELSE ComputeVersion(evs, NoBuckets, type, exec)

\* part_000: from commitData.message to the createTag call.
FromCommitMessage(evs, msg, exec) ==
    \E b \in {categorizeCommitMessages(msg)} :
    \E type \in {IncrementOfBuckets(b.majorMessages, b.minorMessages,
                                     b.patchMessages)} :
        /\ SetClassified(msg, b, type)
        /\ IF type = "null"
           THEN Rejected(evs, NoCorrectMessages)
           ELSE ComputeVersion(evs, b, type, exec)

ListCommitsResolve ==
    /\ pc = "listCommits"
    /\ \E data \in CommitLists :
        /\ commitsData' = data
        /\ IF variant = "logging"
           THEN /\ pc' = "getCommit"
                /\ calls' = Append(calls, Event("listCommits", "ok"))
                /\ UNCHANGED <<localVars, failed>>
           ELSE \E exec \in ExecOutcomes(variant, localTags) :
                    FromCommitsData(<<Event("listCommits", "ok")>>, data, exec)
    /\ UNCHANGED <<envVars, localTags, published, chainVars>>

ListCommitsReject ==
    /\ pc = "listCommits"
    /\ calls' = Append(calls, Event("listCommits", "error"))
    /\ Caught(ApiError)
    /\ UNCHANGED <<envVars, localTags, commitsData, localVars, published, chainVars>>

GetCommitResolve ==
    /\ pc = "getCommit"
    /\ \E msg \in RunMessages, exec \in ExecOutcomes(variant, localTags) :
        IF variant = "logging"
        THEN FromCommitsData(<<Event("getCommit", "ok")>>, commitsData, exec)
        ELSE FromCommitMessage(<<Event("getCommit", "ok")>>, msg, exec)
    /\ UNCHANGED <<envVars, localTags, commitsData, published, chainVars>>

GetCommitReject ==
    /\ pc = "getCommit"
    /\ calls' = Append(calls, Event("getCommit", "error"))
    /\ Caught(ApiError)
    /\ UNCHANGED <<envVars, localTags, commitsData, localVars, published, chainVars>>

CreateTagResolve ==
    /\ pc = "createTag"
    /\ tagObjects' = tagObjects \cup {[tag |-> nextVersion, message |-> releaseNotes]}
    /\ calls' = Append(calls, Event("createTag", "ok"))
    /\ pc' = "createRef"
    /\ UNCHANGED <<envVars, localTags, commitsData, localVars, failed, refs, chainVars>>

\* CreateTagReject with the error swallowed: run() goes on to createRef.
CreateTagRejectGoesOn ==
    /\ pc = "createTag"
    /\ calls' = Append(calls, Event("createTag", "error"))
    /\ failed' = Append(failed, ApiError)
    /\ pc' = "createRef"
    /\ UNCHANGED <<envVars, localTags, commitsData, localVars, published, chainVars>>

CreateTagReject ==
    /\ pc = "createTag"
    /\ calls' = Append(calls, Event("createTag", "error"))
    /\ Caught(ApiError)
    /\ UNCHANGED <<envVars, localTags, commitsData, localVars, published, chainVars>>

CreateRefResolve ==
    /\ pc = "createRef"
    /\ refs' = refs \cup {nextVersion}
    /\ calls' = Append(calls, Event("createRef", "ok"))
    /\ pc' = "done"
    /\ UNCHANGED <<envVars, localTags, commitsData, localVars, failed, tagObjects,
                   chainVars>>

CreateRefReject ==
    /\ pc = "createRef"
    /\ calls' = Append(calls, Event("createRef", "error"))
    /\ Caught(ApiError)
    /\ UNCHANGED <<envVars, localTags, commitsData, localVars, published, chainVars>>

Next ==
    \/ Begin
    \/ ListCommitsResolve
    \/ ListCommitsReject
    \/ GetCommitResolve
    \/ GetCommitReject
    \/ CreateTagResolve
    \/ CreateTagReject
    \/ CreateRefResolve
    \/ CreateRefReject

Spec == Init /\ [][Next]_vars

(***************************************************************************)
(* getNextVersion on its own: a chain of releases, each starting from the  *)
(* version the release before it computed.                                 *)
(***************************************************************************)
Idle ==
    /\ pullRequest = "merged"
    /\ remoteTags = {}
    /\ localTags = {}
    /\ commitsData = <<>>
    /\ failed = <<>>
    /\ tagObjects = {}
    /\ refs = {}
    /\ calls = <<>>

InitVersion ==
    /\ Idle
    /\ variant = "notes"
    /\ pc = "version"
    /\ currentVersion \in VersionStrings
    /\ origin = currentVersion
    /\ applied = <<>>
    /\ nextVersion = None
    /\ versionIncrementType = "null"
    /\ commitMessage = None
    /\ majorMessages = <<>>
    /\ minorMessages = <<>>
    /\ patchMessages = <<>>
    /\ releaseNotes = <<>>

\* const nextVersion = getNextVersion(currentVersion, versionIncrementType)
CallGetNextVersion ==
    /\ pc = "version"
    /\ Len(applied) < MaxSteps
    /\ \E type \in Increment :
       \E r \in {getNextVersion(currentVersion, type)} :
        /\ versionIncrementType' = type
        /\ applied' = Append(applied, type)
        /\ IF r.ok
           THEN /\ nextVersion' = r.value
                /\ pc' = "versioned"
                /\ UNCHANGED failed
           ELSE /\ nextVersion' = None
                /\ Caught(r.error)
    /\ UNCHANGED <<envVars, localTags, commitsData, commitMessage, majorMessages,
                   minorMessages, patchMessages, currentVersion, releaseNotes,
                   published, calls, origin>>

\* The following release reads the tag this one computed.
NextRelease ==
    /\ pc = "versioned"
    /\ currentVersion' = nextVersion
    /\ pc' = "version"
    /\ UNCHANGED <<envVars, localTags, commitsData, commitMessage, majorMessages,
                   minorMessages, patchMessages, versionIncrementType, nextVersion,
                   releaseNotes, failed, published, calls, chainVars>>

NextVersion == CallGetNextVersion \/ NextRelease

SpecVersion == InitVersion /\ [][NextVersion]_vars

(***************************************************************************)
(* The classifiers and the renderer on their own.                          *)
(***************************************************************************)
InitClassify ==
    /\ Idle
    /\ variant \in {"squashed", "notes"}
    /\ pc = "classify"
    /\ commitMessage \in Messages
    /\ nextVersion \in IF variant = "notes"
                       THEN {DefaultVersion, <<"v", "1", ".", "3", ".", "0">>}
                       ELSE {None}
    /\ currentVersion = None
    /\ origin = None
    /\ applied = <<>>
    /\ versionIncrementType = "null"
    /\ majorMessages = <<>>
    /\ minorMessages = <<>>
    /\ patchMessages = <<>>
    /\ releaseNotes = <<>>

\* const versionIncrementType = getVersionIncrementType(commitMessage)
CallGetVersionIncrementType ==
    /\ pc = "classify"
    /\ variant = "squashed"
    /\ versionIncrementType' = getVersionIncrementType(commitMessage)
    /\ pc' = "classified"
    /\ UNCHANGED <<envVars, localTags, commitsData, commitMessage, majorMessages,
                   minorMessages, patchMessages, currentVersion, nextVersion,
                   releaseNotes, failed, published, calls, chainVars>>

\* categorizeCommitMessages(commitMessage), then versionIncrementType.
CallCategorizeCommitMessages ==
    /\ pc = "classify"
    /\ variant = "notes"
    /\ \E b \in {categorizeCommitMessages(commitMessage)} :
        SetClassified(commitMessage, b,
                      IncrementOfBuckets(b.majorMessages, b.minorMessages,
                                         b.patchMessages))
    /\ pc' = "categorized"
    /\ UNCHANGED <<envVars, localTags, commitsData, currentVersion, nextVersion,
                   releaseNotes, failed, published, calls, chainVars>>

\* const releaseNotes = generateReleaseNotes(...)
CallGenerateReleaseNotes ==
    /\ pc = "categorized"
    /\ releaseNotes' = generateReleaseNotes(majorMessages, minorMessages,
                                            patchMessages, nextVersion)
    /\ pc' = "rendered"
    /\ UNCHANGED <<envVars, localTags, commitsData, commitMessage, majorMessages,
                   minorMessages, patchMessages, versionIncrementType,
                   currentVersion, nextVersion, failed, published, calls, chainVars>>

NextClassify ==
    \/ CallGetVersionIncrementType
    \/ CallCategorizeCommitMessages
    \/ CallGenerateReleaseNotes

SpecClassify == InitClassify /\ [][NextClassify]_vars

(***************************************************************************)
(* What the claims speak of.                                               *)
(***************************************************************************)
IsDigits(s) == s # <<>> /\ \A i \in 1..Len(s) : s[i] \in Digits

\* Exactly three numeric components after an optional leading v.
WellFormed(s) ==
    LET parts == Split(StripV(s), ".")
    IN  Len(parts) = 3 /\ \A i \in 1..3 : IsDigits(parts[i])

\* vX.Y.Z
IsVersion(s) == s # <<>> /\ s[1] = "v" /\ WellFormed(s)

\* (X, Y, Z) of a well-formed version.
Triple(s) ==
    LET parts == Split(StripV(s), ".")
    IN  <<DecValue(parts[1]), DecValue(parts[2]), DecValue(parts[3])>>

Expected(t, type) ==
    IF type = "MAJOR" THEN <<t[1] + 1, 0, 0>>
    ELSE IF type = "MINOR" THEN <<t[1], t[2] + 1, 0>>
    ELSE <<t[1], t[2], t[3] + 1>>

Greater(a, b) ==
    \/ a[1] > b[1]
    \/ a[1] = b[1] /\ a[2] > b[2]
    \/ a[1] = b[1] /\ a[2] = b[2] /\ a[3] > b[3]

AllPatch == \A i \in 1..Len(applied) : applied[i] = "PATCH"

Happened(name, outcome) == \E i \in 1..Len(calls) : calls[i] = <<name, outcome>>
Succeeded(name) == Happened(name, "ok")
Errored(name) == Happened(name, "error")
Called(name) == Succeeded(name) \/ Errored(name)

\* C1: from a version vX.Y.Z, MAJOR gives v(X+1).0.0, MINOR vX.(Y+1).0 and
\* PATCH vX.Y.(Z+1), the call never fails, and N PATCH releases from
\* v0.1.0 give v0.1.N.
C1_IncrementRules ==
    /\ IsVersion(origin) => pc # "done"
    /\ (pc = "versioned" /\ IsVersion(currentVersion)) =>
          /\ IsVersion(nextVersion)
          /\ Triple(nextVersion)
               = Expected(Triple(currentVersion), versionIncrementType)
    /\ (pc = "versioned" /\ origin = DefaultVersion /\ AllPatch) =>
          nextVersion = <<"v", "0", ".", "1", ".">> \o NatToString(Len(applied))

\* Three PATCH releases in a row from v0.1.0.
C1_Witness ==
    /\ pc = "versioned"
    /\ origin = DefaultVersion
    /\ AllPatch
    /\ Len(applied) = MaxSteps

\* C2: a call whose current version is not three numeric components never
\* returns a version: it fails with the invalid-format error.
C2_MalformedIsRejected ==
    (pc \in {"versioned", "done"} /\ ~WellFormed(currentVersion)) =>
        /\ pc = "done"
        /\ failed = <<InvalidVersionFormat>>

\* The lines of a message, and a line taken on its own.
LinesOf(msg) == Split(msg, NL)

LineMatches(line, prefixes, bullet) == MatchAt(line, 1, prefixes, bullet).found

LineText(line, bullet) ==
    MatchAt(line, 1, minorPrefixes \cup patchPrefixes, bullet).text

IsBreakingLine(line, bullet) ==
    /\ LineMatches(line, minorPrefixes \cup patchPrefixes, bullet)
    /\ Includes(line, "!")

IsMinorLine(line, bullet) ==
    LineMatches(line, minorPrefixes, bullet) /\ ~Includes(line, "!")

IsPatchLine(line, bullet) ==
    LineMatches(line, patchPrefixes, bullet) /\ ~Includes(line, "!")

\* MAJOR over MINOR over PATCH over none.
Highest(anyMajor, anyMinor, anyPatch, none) ==
    IF anyMajor THEN "MAJOR"
    ELSE IF anyMinor THEN "MINOR"
    ELSE IF anyPatch THEN "PATCH"
    ELSE none

Count(seq, x) == Cardinality({i \in 1..Len(seq) : seq[i] = x})

\* The texts of the lines of msg that satisfy Is, with their multiplicity,
\* are the entries of bucket.
HoldsTextsOf(bucket, msg, Is(_, _)) ==
    LET ls == LinesOf(msg)
        picked == {i \in 1..Len(ls) : Is(ls[i], TRUE)}
    IN  /\ Len(bucket) = Cardinality(picked)
        /\ \A i \in picked :
              Count(bucket, LineText(ls[i], TRUE))
                = Cardinality({j \in picked :
                                 LineText(ls[j], TRUE) = LineText(ls[i], TRUE)})

\* C3: getVersionIncrementType is MAJOR when a line that matches a prefix
\* pattern itself holds a "!", else MINOR when a line matches a minor
\* prefix, else PATCH when a line matches a patch prefix, else NONE.
C3_ClassifiesLineByLine ==
    pc = "classified" =>
        LET ls == Range(LinesOf(commitMessage))
        IN  versionIncrementType =
              Highest(\E l \in ls : IsBreakingLine(l, FALSE),
                      \E l \in ls : IsMinorLine(l, FALSE),
                      \E l \in ls : IsPatchLine(l, FALSE), "NONE")

\* C4: every line that matches a prefix pattern has its text in exactly one
\* bucket (breaking with a "!" in the line, else minor or patch by prefix),
\* and the increment is that of the first non-empty bucket.
C4_EveryMatchingLineBucketed ==
    pc = "categorized" =>
        /\ HoldsTextsOf(majorMessages, commitMessage, IsBreakingLine)
        /\ HoldsTextsOf(minorMessages, commitMessage, IsMinorLine)
        /\ HoldsTextsOf(patchMessages, commitMessage, IsPatchLine)
        /\ versionIncrementType =
              Highest(majorMessages # <<>>, minorMessages # <<>>,
                      patchMessages # <<>>, "null")

IsSectionLine(line) == line.kind \in {BreakingTitle, MinorTitle, PatchTitle}
IsItemLine(line) == line.kind = "- "

\* The section of bucket, when it has one, starts at some line, lists the
\* bucket and ends there.
HasSection(notes, title, bucket) ==
    LET at == {i \in 1..Len(notes) : notes[i].kind = title}
    IN  IF bucket = <<>> THEN at = {}
        ELSE /\ Cardinality(at) = 1
             /\ \A i \in at :
                  /\ i + Len(bucket) <= Len(notes)
                  /\ \A k \in 1..Len(bucket) :
                        notes[i + k] = [kind |-> "- ", arg |-> bucket[k]]
                  /\ \/ i + Len(bucket) = Len(notes)
                     \/ IsSectionLine(notes[i + Len(bucket) + 1])

\* C9: the notes start with the header of the version, then hold one
\* section for each bucket that has entries, in the order breaking, minor,
\* patch, each listing its bucket in order; an empty bucket has no section.
C9_NotesSections ==
    pc = "rendered" =>
        /\ releaseNotes[1] = [kind |-> "## Release ", arg |-> nextVersion]
        /\ ~IsSectionLine(releaseNotes[2]) /\ ~IsItemLine(releaseNotes[2])
        /\ HasSection(releaseNotes, BreakingTitle, majorMessages)
        /\ HasSection(releaseNotes, MinorTitle, minorMessages)
        /\ HasSection(releaseNotes, PatchTitle, patchMessages)
        /\ LET titles == SelectSeq(releaseNotes, IsSectionLine)
           IN  \A i, j \in 1..Len(titles) :
                 /\ (titles[i].kind = BreakingTitle /\ i # j) => i < j
                 /\ (titles[i].kind = PatchTitle /\ i # j) => j < i
        /\ Len(SelectSeq(releaseNotes, IsItemLine))
             = Len(majorMessages) + Len(minorMessages) + Len(patchMessages)
        /\ Len(releaseNotes)
             = 2 + Len(SelectSeq(releaseNotes, IsItemLine))
                 + Len(SelectSeq(releaseNotes, IsSectionLine))

\* Notes without breaking changes, with one minor and one patch entry.
C9_Witness ==
    /\ pc = "rendered"
    /\ majorMessages = <<>>
    /\ Len(minorMessages) = 1
    /\ Len(patchMessages) = 1
    /\ Len(releaseNotes) = 6

Ended == pc = "done"

NotMergedPullRequest ==
    variant \in {"logging", "notes"} /\ pullRequest # "merged"

NotOneCommit ==
    /\ variant \in {"squashed", "logging"}
    /\ Succeeded("listCommits")
    /\ Len(commitsData) # 1

ClassifiesAsNone ==
    \/ /\ variant = "squashed"
       /\ Succeeded("listCommits")
       /\ Len(commitsData) = 1
       /\ getVersionIncrementType(commitsData[1]) = "NONE"
    \/ /\ variant = "logging"
       /\ Succeeded("getCommit")
       /\ Len(commitsData) = 1
       /\ getVersionIncrementType(commitsData[1]) = "NONE"
    \/ /\ variant = "notes"
       /\ Succeeded("getCommit")
       /\ LET b == categorizeCommitMessages(commitMessage)
          IN  b.majorMessages = <<>> /\ b.minorMessages = <<>>
                /\ b.patchMessages = <<>>

Invalid ==
    \/ pullRequest = "absent"
    \/ NotMergedPullRequest
    \/ NotOneCommit
    \/ ClassifiesAsNone

ReachedPublish ==
    \/ pc \in {"createTag", "createRef"}
    \/ Called("getNextVersion")
    \/ Called("createTag")
    \/ Called("createRef")
    \/ tagObjects # {}
    \/ refs # {}

\* C6: a run whose pull request is absent or not merged, whose commits are
\* not exactly one, or whose message classifies as NONE never calls
\* getNextVersion, createTag or createRef, creates nothing and ends with
\* the failure signal; without a pull request the message is NotPullRequest.
C6_PublishOnlyAfterValidation ==
    /\ ReachedPublish => ~Invalid
    /\ (Ended /\ Invalid) => failed # <<>>
    /\ (Ended /\ pullRequest = "absent") => failed[Len(failed)] = NotPullRequest

\* A run of a merged pull request that ended on a message without prefix.
C6_Witness ==
    /\ Ended
    /\ ClassifiesAsNone
    /\ pullRequest = "merged"
    /\ failed = <<NoCorrectMessages>>

\* C7: in a repository without tags getCurrentVersion gives v0.1.0 and the
\* run goes on to publish: it does not end with the failure signal when
\* the fetch of the tags and every API call succeed.
C7_DefaultVersionWithoutTags ==
    (/\ localTags = {}
     /\ remoteTags = {}
     /\ ~Errored("fetchTags")
     /\ Called("getCurrentVersion")) =>
        /\ currentVersion = DefaultVersion
        /\ Succeeded("getNextVersion")
        /\ (Ended /\ ~Errored("createTag") /\ ~Errored("createRef"))
              => (failed = <<>> /\ refs = {nextVersion})

\* C8: once the failure signal is raised the run creates no tag and no ref.
C8_NothingCreatedAfterFailure ==
    [][failed # <<>> => (tagObjects' = tagObjects /\ refs' = refs)]_vars

\* C10: from a well-formed current version, getNextVersion gives a greater
\* version, and no ref or tag object of the run bears the current version.
C10_StrictlyGreater ==
    (Succeeded("getNextVersion") /\ WellFormed(currentVersion)) =>
        /\ WellFormed(nextVersion)
        /\ Greater(Triple(nextVersion), Triple(currentVersion))
        /\ \A r \in refs : r # currentVersion
        /\ \A t \in tagObjects : t.tag # currentVersion

\* A PATCH release from v9.9.9 that published v9.9.10.
C10_Witness ==
    /\ Ended
    /\ currentVersion = <<"v", "9", ".", "9", ".", "9">>
    /\ versionIncrementType = "PATCH"
    /\ refs = {<<"v", "9", ".", "9", ".", "1", "0">>}

====
